---- MODULE Spec2Model ----
(***************************************************************************)
(* A model of the brightsky data pipeline core: the DWD poller            *)
(* (brightsky/polling.py), the parser family (brightsky/parsers.py) and    *)
(* the weather / sources queries (brightsky/query.py).                     *)
(*                                                                         *)
(* Python's None is the empty tuple Null; a present value v of a nullable  *)
(* column is the one-element tuple <<v>>.                                  *)
(***************************************************************************)
EXTENDS Integers, Sequences, FiniteSets, TLC

Null == <<>>

Some(v) == <<v>>

Range(s) == {s[i] : i \in 1..Len(s)}

Max(a, b) == IF a >= b THEN a ELSE b

Min(a, b) == IF a <= b THEN a ELSE b

(***************************************************************************)
(* PART 1 -- the poller, polling.py                                        *)
(***************************************************************************)

\* Largest last-modified stamp an index page shows (stamps are 1..MaxTime).
MaxTime == 1

\* File sizes an index page shows.
Sizes == {1, 2}

Fingerprints == (1..MaxTime) \X Sizes

\* settings.MIN_DATE and settings.MAX_DATE, as dates on an abstract day scale.
MIN_DATE == 3

MAX_DATE == Null

\* DWDPoller.urls: the seed directories (two of the thirteen).
urls == <<"kml/", "air_temperature/">>

\* The files whose listing and fingerprint change while the model runs.
DynLinks == {"MOSMIX_S_LATEST_240.kmz", "stundenwerte_TU_00044_akt.zip"}

\* What a file name is made of, as far as get_parser and should_skip read it:
\* the stem the dispatch patterns look at and, for a _hist.zip archive, the
\* first and last date its name carries.
LinkInfo(link) ==
    CASE link = "MOSMIX_S_LATEST_240.kmz" ->
            [stem |-> "MOSMIX_S_LATEST_240.kmz", hist |-> Null]
      [] link = "stundenwerte_TU_00044_akt.zip" ->
            [stem |-> "stundenwerte_TU_", hist |-> Null]
      [] link = "stundenwerte_TU_00044_0001_0002_hist.zip" ->
            [stem |-> "stundenwerte_TU_", hist |-> <<1, 2>>]
      [] link = "stundenwerte_TU_00044_0002_0004_hist.zip" ->
            [stem |-> "stundenwerte_TU_", hist |-> <<2, 4>>]
      [] OTHER -> [stem |-> "", hist |-> Null]

\* get_parser's None, among the class names.
NoParser == "None"

\* get_parser(filename): the parser class whose pattern matches, or None.
get_parser(filename) ==
    LET stem == LinkInfo(filename).stem IN
    CASE stem = "MOSMIX_S_LATEST_240.kmz" -> "MOSMIXParser"
      [] stem = "BEOB.csv" -> "CurrentObservationsParser"
      [] stem = "stundenwerte_FF_" -> "WindObservationsParser"
      [] stem = "stundenwerte_P0_" -> "PressureObservationsParser"
      [] stem = "stundenwerte_RR_" -> "PrecipitationObservationsParser"
      [] stem = "stundenwerte_SD_" -> "SunshineObservationsParser"
      [] stem = "stundenwerte_TU_" -> "TemperatureObservationsParser"
      [] OTHER -> NoParser

ObservationsParsers ==
    {"WindObservationsParser", "PressureObservationsParser",
     "PrecipitationObservationsParser", "SunshineObservationsParser",
     "TemperatureObservationsParser"}

\* Parser.should_skip is False; ObservationsParser.should_skip reads the date
\* range of a _hist.zip name.
should_skip(parser_cls, link) ==
    IF parser_cls \in ObservationsParsers /\ LinkInfo(link).hist # Null
    THEN LET start_date == LinkInfo(link).hist[1]
             end_date == LinkInfo(link).hist[2]
         IN  IF end_date < MIN_DATE THEN TRUE
             ELSE IF MAX_DATE # Null /\ start_date > MAX_DATE[1] THEN TRUE
             ELSE FALSE
    ELSE FALSE

\* The anchors of every directory page, in page order.  dot: the href starts
\* with '.', slash: it ends with '/'.  A file's anchor carries the fingerprint
\* text that follows it; fixed files carry a fixed one.
StaticAnchors(url) ==
    CASE url = "kml/" ->
            << [href |-> "../", dot |-> TRUE, slash |-> TRUE],
               [href |-> "MOSMIX_S_LATEST_240.kmz", dot |-> FALSE, slash |-> FALSE] >>
      [] url = "air_temperature/" ->
            << [href |-> "../", dot |-> TRUE, slash |-> TRUE],
               [href |-> "recent/", dot |-> FALSE, slash |-> TRUE],
               [href |-> "historical/", dot |-> FALSE, slash |-> TRUE] >>
      [] url = "air_temperature/recent/" ->
            << [href |-> "../", dot |-> TRUE, slash |-> TRUE],
               [href |-> "DESCRIPTION_obsgermany.pdf", dot |-> FALSE, slash |-> FALSE],
               [href |-> "stundenwerte_TU_00044_akt.zip", dot |-> FALSE, slash |-> FALSE] >>
      [] url = "air_temperature/historical/" ->
            << [href |-> "../", dot |-> TRUE, slash |-> TRUE],
               [href |-> "stundenwerte_TU_00044_0001_0002_hist.zip", dot |-> FALSE, slash |-> FALSE] >>
      [] OTHER -> << >>

\* The fingerprint of the files the model never changes.
FixedFingerprint == <<1, 1>>

VARIABLES
    index,          \* the remote listing: link -> fingerprint, or Null (not listed)
    parsed_files,   \* the ledger table: rows [url, last_modified, file_size]
    lastOut,        \* the jobs the last poll() yielded, in order
    polled,         \* poll() has run
    dirty,          \* the index changed since the last poll()
    wrote,          \* a ledger row was written since the last poll()
    pollSeq         \* parity of the number of poll() calls

pollVars == <<index, parsed_files, lastOut, polled, dirty, wrote, pollSeq>>

\* The page a GET of directory url returns: the static anchors, a changing
\* file's anchor only while it is listed.
Page(url) ==
    LET all == StaticAnchors(url)
        Shown(a) == a.href \in DynLinks => index[a.href] # Null
        FpOf(a) == IF a.href \in DynLinks THEN index[a.href] ELSE FixedFingerprint
        keep == SelectSeq(all, Shown)
    IN  [i \in 1..Len(keep) |->
            [href |-> keep[i].href, dot |-> keep[i].dot, slash |-> keep[i].slash,
             fingerprint |-> IF keep[i].slash THEN Null ELSE FpOf(keep[i])]]

\* DWDPoller.parse, the anchors loop: the file infos of one page.
RECURSIVE ParseFiles(_, _)
ParseFiles(url, anchors) ==
    IF anchors = << >> THEN << >>
    ELSE LET a == Head(anchors)
             rest == ParseFiles(url, Tail(anchors))
         IN  IF a.dot THEN rest
             ELSE IF a.slash THEN rest
             ELSE LET parser_cls == get_parser(a.href) IN
                  IF parser_cls # NoParser /\ ~should_skip(parser_cls, a.href)
                  THEN << [url |-> url \o a.href,
                           parser |-> parser_cls,
                           last_modified |-> a.fingerprint[1],
                           file_size |-> a.fingerprint[2]] >> \o rest
                  ELSE rest

\* DWDPoller.parse, the anchors loop: the directories of one page.
RECURSIVE ParseDirectories(_, _)
ParseDirectories(url, anchors) ==
    IF anchors = << >> THEN << >>
    ELSE LET a == Head(anchors)
             rest == ParseDirectories(url, Tail(anchors))
         IN  IF a.dot THEN rest
             ELSE IF a.slash THEN << url \o a.href >> \o rest
             ELSE rest

\* DWDPoller.poll_url / DWDPoller.parse: the files of the page, then the walk
\* of each of its directories.
RECURSIVE poll_url(_)
RECURSIVE PollDirs(_)
poll_url(url) ==
    ParseFiles(url, Page(url)) \o PollDirs(ParseDirectories(url, Page(url)))

PollDirs(directories) ==
    IF directories = << >> THEN << >>
    ELSE poll_url(Head(directories)) \o PollDirs(Tail(directories))

\* parsed_files.get(url): the ledger's fingerprint of url, or None.
LedgerGet(url) ==
    IF \E row \in parsed_files : row.url = url
    THEN LET row == CHOOSE r \in parsed_files : r.url = url
         IN  <<row.last_modified, row.file_size>>
    ELSE Null

\* A faulty variant of the comparison in poll(): only the presence of a
\* ledger entry counts.
NeedsParseIfAbsent(file_info) == LedgerGet(file_info.url) = Null

\* A faulty variant of the comparison in poll(): every file is yielded.
NeedsParseAlways(file_info) == TRUE

\* poll(), lines 47-49: the file's fingerprint is not the ledger's.
NeedsParse(file_info) ==
    LedgerGet(file_info.url) # <<file_info.last_modified, file_info.file_size>>

\* DWDPoller.poll: the file infos of every seed's walk whose fingerprint is not
\* the ledger's.
poll ==
    LET RECURSIVE Walk(_)
        Walk(seeds) == IF seeds = << >> THEN << >>
                       ELSE poll_url(Head(seeds)) \o Walk(Tail(seeds))
    IN  SelectSeq(Walk(urls), NeedsParse)


(***************************************************************************)
(* The poller's environment and history.                                   *)
(***************************************************************************)

\* The url of a changing file.
UrlOf(link) ==
    IF link = "MOSMIX_S_LATEST_240.kmz" THEN "kml/" \o link
    ELSE "air_temperature/recent/" \o link

DynUrls == {UrlOf(link) : link \in DynLinks}

\* The directories the walk from the seeds can reach.
WalkedDirs ==
    {"kml/", "air_temperature/", "air_temperature/recent/",
     "air_temperature/historical/"}

\* The server publishes a new version of a file (or lists it again).
Republish(link, fp) ==
    /\ index[link] # fp
    /\ index' = [index EXCEPT ![link] = fp]
    /\ dirty' = TRUE

\* The server drops a file from its listing.
Unlist(link) ==
    /\ index[link] # Null
    /\ index' = [index EXCEPT ![link] = Null]
    /\ dirty' = TRUE

\* The ledger row of a parsed file: persistence writes it, never the poller.
LedgerPut(ledger, file_info) ==
    {row \in ledger : row.url # file_info.url}
        \cup {[url |-> file_info.url,
               last_modified |-> file_info.last_modified,
               file_size |-> file_info.file_size]}

VARIABLES
    jobs,             \* url -> the job of that file: its state, file info, records written
    weather_visible   \* the committed records: [url, fingerprint, record]

jobVars == <<jobs, weather_visible>>

\* The records one file parses to, in the order they are persisted.
FileRecords == <<"r1", "r2">>

IdleJob == [state |-> "idle", file_info |-> Null, written |-> 0]

PollInit ==
    /\ index = [link \in DynLinks |-> <<1, 1>>]
    /\ parsed_files = {}
    /\ lastOut = << >>
    /\ polled = FALSE
    /\ dirty = FALSE
    /\ wrote = FALSE
    /\ pollSeq = 0

JobInit ==
    /\ jobs = [u \in DynUrls |-> IdleJob]
    /\ weather_visible = {}

\* poll(): the jobs are listed, nothing is written.
Poll ==
    /\ lastOut' = poll
    /\ polled' = TRUE
    /\ dirty' = FALSE
    /\ wrote' = FALSE
    /\ pollSeq' = 1 - pollSeq
    /\ UNCHANGED <<index, parsed_files>>

\* A job the last poll() yielded was parsed and persisted: its ledger row is
\* written.
RecordParsed(i) ==
    /\ i \in 1..Len(lastOut)
    /\ LedgerGet(lastOut[i].url) # <<lastOut[i].last_modified, lastOut[i].file_size>>
    /\ parsed_files' = LedgerPut(parsed_files, lastOut[i])
    /\ wrote' = TRUE
    /\ UNCHANGED <<index, lastOut, polled, dirty, pollSeq>>

PollRepublish ==
    \E link \in DynLinks, fp \in Fingerprints :
        /\ Republish(link, fp)
        /\ UNCHANGED <<parsed_files, lastOut, polled, wrote, pollSeq>>

PollUnlist ==
    \E link \in DynLinks :
        /\ Unlist(link)
        /\ UNCHANGED <<parsed_files, lastOut, polled, wrote, pollSeq>>

PollRecord == \E i \in 1..2 : RecordParsed(i)

(***************************************************************************)
(* The jobs: one per file, enqueued by poll, run by a worker, committed    *)
(* with the ledger row or rolled back.                                     *)
(***************************************************************************)

\* poll with enqueue: every yielded file that has no job waiting or running
\* gets one.
PollEnqueue ==
    LET out == poll
        JobFor(u) == CHOOSE j \in Range(out) : j.url = u
    IN  /\ \E j \in Range(out) : jobs[j.url].state \in {"idle", "cancelled"}
        /\ jobs' = [u \in DynUrls |->
                      IF /\ \E j \in Range(out) : j.url = u
                         /\ jobs[u].state \in {"idle", "cancelled"}
                      THEN [state |-> "queued", file_info |-> JobFor(u), written |-> 0]
                      ELSE jobs[u]]
        /\ UNCHANGED <<index, parsed_files, weather_visible, lastOut, polled,
                       dirty, wrote, pollSeq>>

\* A worker takes the job and opens its transaction.
StartJob(u) ==
    /\ jobs[u].state = "queued"
    /\ jobs' = [jobs EXCEPT ![u].state = "running"]
    /\ UNCHANGED <<index, parsed_files, weather_visible, lastOut, polled,
                   dirty, wrote, pollSeq>>

\* The job upserts its next record inside its transaction.
PersistRecord(u) ==
    /\ jobs[u].state = "running"
    /\ jobs[u].written < Len(FileRecords)
    /\ jobs' = [jobs EXCEPT ![u].written = @ + 1]
    /\ UNCHANGED <<index, parsed_files, weather_visible, lastOut, polled,
                   dirty, wrote, pollSeq>>

\* The job commits: the file's records and its ledger row become visible
\* together.
CommitJob(u) ==
    /\ jobs[u].state = "running"
    /\ jobs[u].written = Len(FileRecords)
    /\ weather_visible' =
          {r \in weather_visible : r.url # u}
              \cup {[url |-> u,
                     fingerprint |-> <<jobs[u].file_info.last_modified,
                                       jobs[u].file_info.file_size>>,
                     record |-> FileRecords[i]] : i \in 1..Len(FileRecords)}
    /\ parsed_files' = LedgerPut(parsed_files, jobs[u].file_info)
    /\ jobs' = [jobs EXCEPT ![u] = IdleJob]
    /\ UNCHANGED <<index, lastOut, polled, dirty, wrote, pollSeq>>

\* A cancellation that leaves the ledger row behind.
CancelJobKeepsLedger(u) ==
    /\ jobs[u].state = "running"
    /\ jobs' = [jobs EXCEPT ![u].state = "cancelled", ![u].written = 0]
    /\ parsed_files' = LedgerPut(parsed_files, jobs[u].file_info)
    /\ UNCHANGED <<index, weather_visible, lastOut, polled, dirty, wrote, pollSeq>>

\* The job is cancelled at a suspension point: its transaction is rolled back.
CancelJob(u) ==
    /\ jobs[u].state = "running"
    /\ jobs' = [jobs EXCEPT ![u].state = "cancelled", ![u].written = 0]
    /\ UNCHANGED <<index, parsed_files, weather_visible, lastOut, polled,
                   dirty, wrote, pollSeq>>

JobRepublish ==
    \E link \in DynLinks, fp \in Fingerprints :
        /\ Republish(link, fp)
        /\ UNCHANGED <<parsed_files, lastOut, polled, wrote, pollSeq, jobs,
                       weather_visible>>

JobUnlist ==
    \E link \in DynLinks :
        /\ Unlist(link)
        /\ UNCHANGED <<parsed_files, lastOut, polled, wrote, pollSeq, jobs,
                       weather_visible>>

JobStart == \E u \in DynUrls : StartJob(u)

JobPersist == \E u \in DynUrls : PersistRecord(u)

JobCommit == \E u \in DynUrls : CommitJob(u)

JobCancel == \E u \in DynUrls : CancelJob(u)


(***************************************************************************)
(* PART 2 -- the database and the queries, query.py                        *)
(***************************************************************************)

\* The measurement columns of the weather table the model carries.
Fields == {"temperature", "pressure_msl", "wind_speed"}

\* datetime.timedelta(days=1), in hours: timestamps count hours.
HoursPerDay == 24

\* The last hour any record is stamped with.
MaxHour == 25

\* How many files are ingested in one run of the model.
MaxIngests == 3

\* The rows the sources table can hold.  The ids are surrogate keys: they say
\* nothing about preference.
SourceUniverse ==
    { [id |-> 3, dwd_station_id |-> "D1", wmo_station_id |-> "W1",
       station_name |-> "Alpha", observation_type |-> "historical",
       lat |-> 0, lon |-> 0, height |-> 10],
      [id |-> 1, dwd_station_id |-> "D1", wmo_station_id |-> "W1",
       station_name |-> "Alpha", observation_type |-> "forecast",
       lat |-> 0, lon |-> 0, height |-> 10],
      [id |-> 2, dwd_station_id |-> "D2", wmo_station_id |-> "W2",
       station_name |-> "Beta", observation_type |-> "historical",
       lat |-> 1, lon |-> 0, height |-> 20] }

\* The order of the observation_type column: current, recent, historical,
\* forecast.
TypeRank(observation_type) ==
    CASE observation_type = "current" -> 1
      [] observation_type = "recent" -> 2
      [] observation_type = "historical" -> 3
      [] observation_type = "forecast" -> 4
      [] OTHER -> 5

Abs(x) == IF x < 0 THEN -x ELSE x

\* earth_distance(ll_to_earth(lat, lon), ll_to_earth(row.lat, row.lon)), on a
\* grid where one step is one unit of distance.
earth_distance(lat, lon, row) == Abs(lat - row.lat) + Abs(lon - row.lon)

VARIABLES
    sources_table,   \* the rows of table sources
    weather_table,   \* the rows of table weather
    ingests,         \* files ingested so far
    request,         \* the arguments of the last query
    source_ids,      \* weather(): the candidate list of the last call, or Null
    response         \* what the last query returned or raised

dbVars == <<sources_table, weather_table, ingests, request, source_ids, response>>

\* Upsert of a weather record that lets an incoming null erase the column.
UpsertWeatherOverwrite(table, record) ==
    {row \in table :
        ~(row.source_id = record.source_id /\ row.timestamp = record.timestamp)}
        \cup {record}

\* Upsert of a weather record, keyed by (source_id, timestamp): on conflict a
\* non-null incoming value overwrites and a null one keeps what is there.
UpsertWeather(table, record) ==
    LET Same(row) == /\ row.source_id = record.source_id
                     /\ row.timestamp = record.timestamp
    IN  IF \E row \in table : Same(row)
        THEN LET old == CHOOSE row \in table : Same(row)
                 new == [f \in DOMAIN old |->
                            IF f \in Fields /\ record[f] # Null THEN record[f]
                            ELSE old[f]]
             IN  (table \ {old}) \cup {new}
        ELSE table \cup {record}

\* The weather record a file of source src holds for hour t: the columns in
\* fields carry a value that names the source, the others are null.
FileRecord(src, t, fields) ==
    [source_id |-> src.id, timestamp |-> t,
     temperature |-> IF "temperature" \in fields THEN Some(src.id) ELSE Null,
     pressure_msl |-> IF "pressure_msl" \in fields THEN Some(src.id) ELSE Null,
     wind_speed |-> IF "wind_speed" \in fields THEN Some(src.id) ELSE Null]

RECURSIVE UpsertAll(_, _, _, _, _)
UpsertAll(table, src, first, last, fields) ==
    IF first > last THEN table
    ELSE UpsertAll(UpsertWeather(table, FileRecord(src, first, fields)),
                   src, first + 1, last, fields)

\* The hour ranges and the column sets of the files that are ingested.
FileRanges == {<<0, MaxHour>>, <<1, 1>>}

FileFields == {{"temperature"}, {"pressure_msl"},
               {"temperature", "pressure_msl", "wind_speed"}}

\* A parsed file is persisted: its source row is resolved or inserted and its
\* records are upserted.
IngestFile(src, range, fields) ==
    /\ request = [op |-> "none"]
    /\ ingests < MaxIngests
    /\ ingests' = ingests + 1
    /\ sources_table' = sources_table \cup {src}
    /\ weather_table' = UpsertAll(weather_table, src, range[1], range[2], fields)
    /\ UNCHANGED <<request, source_ids, response>>

(***************************************************************************)
(* query.py                                                                *)
(***************************************************************************)

\* The sequences that hold every element of set S once.
Orderings(S) ==
    {seq \in [1..Cardinality(S) -> S] :
        \A i, j \in 1..Cardinality(S) : i # j => seq[i] # seq[j]}

\* Lexicographic <= on tuples of integers of one length.
RECURSIVE KeyLeq(_, _)
KeyLeq(a, b) ==
    IF a = << >> THEN TRUE
    ELSE IF Head(a) < Head(b) THEN TRUE
    ELSE IF Head(a) > Head(b) THEN FALSE
    ELSE KeyLeq(Tail(a), Tail(b))

\* sources(): which criteria the call selects by.
SourcesMode(c) ==
    IF c.source_id # Null THEN "source_id"
    ELSE IF c.dwd_station_id # Null THEN "dwd_station_id"
    ELSE IF c.wmo_station_id # Null THEN "wmo_station_id"
    ELSE IF c.lat # Null /\ c.lon # Null THEN "lat_lon"
    ELSE "none"

\* sources(): the WHERE clause.
SourcesWhere(c, row) ==
    CASE SourcesMode(c) = "source_id" -> row.id = c.source_id[1]
      [] SourcesMode(c) = "dwd_station_id" -> row.dwd_station_id = c.dwd_station_id[1]
      [] SourcesMode(c) = "wmo_station_id" -> row.wmo_station_id = c.wmo_station_id[1]
      [] SourcesMode(c) = "lat_lon" ->
            earth_distance(c.lat[1], c.lon[1], row) < c.max_dist
      [] OTHER -> FALSE

\* sources(): the selected row, with the distance column in lat/lon mode.
SourcesSelect(c, row) ==
    IF SourcesMode(c) = "lat_lon"
    THEN [id |-> row.id, dwd_station_id |-> row.dwd_station_id,
          wmo_station_id |-> row.wmo_station_id, station_name |-> row.station_name,
          observation_type |-> row.observation_type, lat |-> row.lat,
          lon |-> row.lon, height |-> row.height,
          distance |-> earth_distance(c.lat[1], c.lon[1], row)]
    ELSE row

\* sources(): the ORDER BY key.
SourcesOrderKey(c, row) ==
    IF SourcesMode(c) = "lat_lon"
    THEN IF c.ignore_type THEN <<row.distance>>
         ELSE <<TypeRank(row.observation_type), row.distance>>
    ELSE <<TypeRank(row.observation_type)>>

\* sources(), lines 153-156, without the empty-result check.
SourcesResultMaybeEmpty(rows) == [status |-> "ok", sources |-> rows]

\* sources(), lines 153-156: no row raises LookupError.
SourcesResult(rows) ==
    IF rows = << >> THEN [status |-> "LookupError"]
    ELSE [status |-> "ok", sources |-> rows]

\* sources(...): the results the call can have, one for every order the
\* database may give rows of equal ORDER BY key.
sources(c) ==
    IF SourcesMode(c) = "none" THEN {[status |-> "ValueError"]}
    ELSE LET selected == {SourcesSelect(c, row) :
                             row \in {r \in sources_table : SourcesWhere(c, r)}}
             sorted == {seq \in Orderings(selected) :
                          \A i \in 1..(Len(seq) - 1) :
                             KeyLeq(SourcesOrderKey(c, seq[i]),
                                    SourcesOrderKey(c, seq[i + 1]))}
         IN  {SourcesResult(seq) : seq \in sorted}

\* array_position(list, x): the first place of x in list.
array_position(list, x) ==
    CHOOSE i \in 1..Len(list) : list[i] = x /\ \A j \in 1..(i - 1) : list[j] # x

\* The hours in ascending order.
HourSeq == [i \in 1..(MaxHour + 1) |-> i - 1]

\* A faulty variant of DISTINCT ON: the smallest source id first.
DistinctOnLowestId(rows, source_id, is_list) ==
    CHOOSE row \in rows : \A other \in rows : row.source_id <= other.source_id

\* _weather, the DISTINCT ON row of one timestamp among rows: the ORDER BY
\* puts the source that comes first in the list first; a single source has
\* one row per timestamp.
DistinctOn(rows, source_id, is_list) ==
    IF is_list
    THEN CHOOSE row \in rows :
            \A other \in rows :
                array_position(source_id, row.source_id)
                    <= array_position(source_id, other.source_id)
    ELSE CHOOSE row \in rows : TRUE

\* _weather, line 47, with a half-open interval.
InIntervalHalfOpen(timestamp, date, last_date) ==
    date <= timestamp /\ timestamp < last_date

\* _weather, line 47: timestamp BETWEEN date AND last_date.
InInterval(timestamp, date, last_date) ==
    date <= timestamp /\ timestamp <= last_date

\* The one element of a one-element set.  {F(x) : x \in {e}} evaluates e once
\* for all its uses in F.
TheOne(S) == CHOOSE x \in S : TRUE

\* _weather(date, last_date, source_id, not_null): source_id is a list of ids
\* (is_list) or one id.  One row for every timestamp that has a matching row,
\* in timestamp order.
_weather(date, last_date, source_id, is_list, not_null) ==
    LET Where(row) ==
            /\ InInterval(row.timestamp, date, last_date)
            /\ IF is_list THEN row.source_id \in Range(source_id)
               ELSE row.source_id = source_id
            /\ \A element \in not_null : row[element] # Null
        Rows(matching) ==
            LET Present(t) == \E row \in matching : row.timestamp = t
            IN  TheOne({[i \in 1..Len(stamps) |->
                            DistinctOn({row \in matching : row.timestamp = stamps[i]},
                                       source_id, is_list)] :
                        stamps \in {SelectSeq(HourSeq, Present)}})
    IN  TheOne({Rows(matching) :
                   matching \in {{row \in weather_table : Where(row)}}})

\* _fill_missing_fields, line 70: the columns of a row that are None.
MissingRowFields(row) == {k \in Fields : row[k] = Null}

\* _fill_missing_fields, lines 89-93, recording the row's own source.
FillRowOwnSource(row, fields, fallback_row) ==
    [k \in DOMAIN row \cup {"fallback_source_ids"} |->
        IF k = "fallback_source_ids" THEN [f \in fields |-> row.source_id]
        ELSE IF k \in fields THEN fallback_row[k]
        ELSE row[k]]

\* _fill_missing_fields, lines 89-93, copying every column of the fallback
\* row, not only the missing ones.
FillRowEveryField(row, fields, fallback_row) ==
    [k \in DOMAIN row \cup {"fallback_source_ids"} |->
        IF k = "fallback_source_ids" THEN [f \in fields |-> fallback_row.source_id]
        ELSE IF k \in Fields THEN fallback_row[k]
        ELSE row[k]]

\* _fill_missing_fields, lines 89-93: the missing columns are copied from the
\* fallback row and its source is recorded for each.
FillRow(row, fields, fallback_row) ==
    [k \in DOMAIN row \cup {"fallback_source_ids"} |->
        IF k = "fallback_source_ids" THEN [f \in fields |-> fallback_row.source_id]
        ELSE IF k \in fields THEN fallback_row[k]
        ELSE row[k]]

\* _fill_missing_fields, lines 87-93: every incomplete row that has a fallback
\* row at its timestamp is filled from it.
FillRows(weather_rows, fallback) ==
    LET fallback_rows == [t \in {fallback[j].timestamp : j \in 1..Len(fallback)} |->
                             fallback[CHOOSE j \in 1..Len(fallback) :
                                          fallback[j].timestamp = t]]
    IN  [i \in 1..Len(weather_rows) |->
            IF /\ MissingRowFields(weather_rows[i]) # {}
               /\ weather_rows[i].timestamp \in DOMAIN fallback_rows
            THEN FillRow(weather_rows[i], MissingRowFields(weather_rows[i]),
                         fallback_rows[weather_rows[i].timestamp])
            ELSE weather_rows[i]]

\* _fill_missing_fields(weather_rows, date, last_date, source_ids): the rows
\* after the fill.
_fill_missing_fields(weather_rows, date, last_date, ids) ==
    LET incomplete == {i \in 1..Len(weather_rows) :
                          MissingRowFields(weather_rows[i]) # {}}
        missing_fields == UNION {MissingRowFields(weather_rows[i]) : i \in incomplete}
    IN  IF incomplete = {} THEN weather_rows
        ELSE LET first == CHOOSE i \in incomplete : \A j \in incomplete : i <= j
                 last == CHOOSE i \in incomplete : \A j \in incomplete : i >= j
                 min_date == weather_rows[first].timestamp
                 max_date == weather_rows[last].timestamp
             IN  TheOne({FillRows(weather_rows, fallback) :
                            fallback \in {_weather(min_date, max_date, ids, TRUE,
                                                   missing_fields)}})

\* The criteria of a call with every argument left out.
NoCriteria ==
    [source_id |-> Null, dwd_station_id |-> Null, wmo_station_id |-> Null,
     lat |-> Null, lon |-> Null, max_dist |-> 50000, ignore_type |-> FALSE]

\* weather(), lines 30-34: the sources that contributed a row or a column.
UsedSourceIds(weather_rows) ==
    {weather_rows[i].source_id : i \in 1..Len(weather_rows)}
        \cup UNION {IF "fallback_source_ids" \in DOMAIN weather_rows[i]
                    THEN {weather_rows[i].fallback_source_ids[f] :
                             f \in DOMAIN weather_rows[i].fallback_source_ids}
                    ELSE {} : i \in 1..Len(weather_rows)}

\* weather(), lines 22-38: the call with a candidate list.
WeatherOfSources(req, date, last_date, sources_rows) ==
    LET ids == [i \in 1..Len(sources_rows) |-> sources_rows[i].id]
        Filled(primary) ==
            IF req.fallback THEN _fill_missing_fields(primary, date, last_date, ids)
            ELSE primary
        Result(weather_rows) ==
            LET used == UsedSourceIds(weather_rows)
                Used(row) == row.id \in used
            IN  [response |-> [status |-> "ok", weather |-> weather_rows,
                               sources |-> SelectSeq(sources_rows, Used)],
                 source_ids |-> ids]
    IN  TheOne({TheOne({Result(weather_rows) : weather_rows \in {Filled(primary)}}) :
                   primary \in {_weather(date, last_date, ids, TRUE, {})}})

\* weather(), lines 15-20: the call with a source id.
WeatherOfSourceId(req, date, last_date) ==
    LET Result(rows) ==
            LET lookup == sources([NoCriteria EXCEPT !.source_id = req.source_id])
            IN  IF rows = << >> /\ \E r \in lookup : r.status # "ok"
                THEN {[response |-> r, source_ids |-> Null] :
                         r \in {x \in lookup : x.status # "ok"}}
                ELSE {[response |-> [status |-> "ok", weather |-> rows],
                       source_ids |-> Null]}
    IN  UNION {Result(rows) :
                  rows \in {_weather(date, last_date, req.source_id[1], FALSE, {})}}

\* weather(...): the outcomes the call can have, each with the candidate list
\* it worked with (Null where it built none).
weather(req) ==
    LET date == req.date
        last_date == IF req.last_date = Null THEN req.date + HoursPerDay
                     ELSE req.last_date[1]
    IN  IF req.source_id # Null
        THEN WeatherOfSourceId(req, date, last_date)
        ELSE {IF found.status # "ok"
              THEN [response |-> found, source_ids |-> Null]
              ELSE WeatherOfSources(req, date, last_date, found.sources) :
                 found \in sources([source_id |-> Null,
                                    dwd_station_id |-> req.dwd_station_id,
                                    wmo_station_id |-> req.wmo_station_id,
                                    lat |-> req.lat, lon |-> req.lon,
                                    max_dist |-> req.max_dist,
                                    ignore_type |-> FALSE])}

\* The criteria the queries are called with.
Criteria ==
    {[NoCriteria EXCEPT !.source_id = Some(id)] : id \in 1..4}
    \cup {[NoCriteria EXCEPT !.dwd_station_id = Some(d)] : d \in {"D1", "D9"}}
    \cup {[NoCriteria EXCEPT !.wmo_station_id = Some(w)] : w \in {"W2", "W9"}}
    \cup {[NoCriteria EXCEPT !.lat = Some(0), !.lon = Some(0), !.max_dist = m] :
             m \in {1, 2}}
    \cup {[NoCriteria EXCEPT !.lat = Some(5), !.lon = Some(0), !.max_dist = 2],
          [NoCriteria EXCEPT !.lat = Some(0)]}

WeatherRequests ==
    {[op |-> "weather", date |-> w[1], last_date |-> w[2], fallback |-> fb,
      source_id |-> c.source_id, dwd_station_id |-> c.dwd_station_id,
      wmo_station_id |-> c.wmo_station_id, lat |-> c.lat, lon |-> c.lon,
      max_dist |-> c.max_dist, ignore_type |-> FALSE] :
        w \in {<<0, Null>>, <<1, Null>>, <<0, Some(1)>>},
        fb \in BOOLEAN, c \in Criteria}

SourcesRequests ==
    {[op |-> "sources", date |-> 0, last_date |-> Null, fallback |-> FALSE,
      source_id |-> c.source_id, dwd_station_id |-> c.dwd_station_id,
      wmo_station_id |-> c.wmo_station_id, lat |-> c.lat, lon |-> c.lon,
      max_dist |-> c.max_dist, ignore_type |-> it] :
        it \in BOOLEAN, c \in Criteria}

NoRequest == [op |-> "none"]

DbInit ==
    /\ sources_table = {}
    /\ weather_table = {}
    /\ ingests = 0
    /\ request = NoRequest
    /\ source_ids = Null
    /\ response = [status |-> "none"]

Ingest ==
    \E src \in SourceUniverse, range \in FileRanges, fields \in FileFields :
        IngestFile(src, range, fields)

\* A weather query runs to completion.
QueryWeather ==
    /\ request = NoRequest
    /\ \E req \in WeatherRequests :
        \E out \in weather(req) :
            /\ request' = req
            /\ response' = out.response
            /\ source_ids' = out.source_ids
            /\ UNCHANGED <<sources_table, weather_table, ingests>>

\* A sources query runs to completion.
QuerySources ==
    /\ request = NoRequest
    /\ \E req \in SourcesRequests :
        \E out \in sources(req) :
            /\ request' = req
            /\ response' = out
            /\ source_ids' = Null
            /\ UNCHANGED <<sources_table, weather_table, ingests>>

(***************************************************************************)
(* PART 3: the upsert of weather rows on its own.                          *)
(***************************************************************************)

\* Upserts one run performs.
MaxUpserts == 2

FieldValues == {Null, Some(1), Some(2)}

\* The records handed to the upsert: two keys, every mix of null and
\* non-null columns.
UpsertRecords ==
    [source_id : {1}, timestamp : {0, 1}, temperature : FieldValues,
     pressure_msl : FieldValues, wind_speed : FieldValues]

VARIABLES
    persisted,      \* the weather rows persisted so far
    upserts         \* the records upserted so far, in order

upsertVars == <<persisted, upserts>>

UpsertInit ==
    /\ persisted = {}
    /\ upserts = << >>

\* One record is upserted.
Upsert ==
    /\ Len(upserts) < MaxUpserts
    /\ \E record \in UpsertRecords :
          /\ persisted' = UpsertWeather(persisted, record)
          /\ upserts' = Append(upserts, record)

(***************************************************************************)
(* PART 4: the parsers (parsers.py), one record at a time.  Of a record    *)
(* the model keeps the timestamp and the two elements the sanitisation     *)
(* reads, wind_direction and precipitation.                                *)
(***************************************************************************)

\* Product rows in one file (time steps, in a MOSMIX file).
MaxRows == 2

\* Stations (Placemarks) in one MOSMIX file.
MaxStations == 2

\* Rows in the location metadata of one observations file.
MaxEntries == 2

ParserClasses ==
    {"MOSMIXParser", "CurrentObservationsParser", "WindObservationsParser",
     "PrecipitationObservationsParser"}

\* The text a format writes for a missing value.
MissingText(parser_cls) ==
    CASE parser_cls = "MOSMIXParser" -> "-"
      [] parser_cls = "CurrentObservationsParser" -> "---"
      [] OTHER -> "-999"

WindTexts == {"10", "360", "370", "730", "-10"}

PrecipitationTexts == {"5", "-1"}

RowTimestamps == {MIN_DATE - 1, MIN_DATE}

\* The rows a file of the format can hold.
RawRows(parser_cls) ==
    [timestamp : RowTimestamps,
     wind_direction : WindTexts \cup {MissingText(parser_cls)},
     precipitation : PrecipitationTexts \cup {MissingText(parser_cls)}]

\* The stations a file can hold: a MOSMIX file has one Placemark per station,
\* each with a value per time step of the file; the other formats have one
\* station per file.
StationCounts(parser_cls) ==
    IF parser_cls = "MOSMIXParser" THEN 1..MaxStations ELSE {1}

\* The files of a parser class with n rows.  In a MOSMIX file the rows are
\* the time steps, with the values every station of the file has for them.
Files(parser_cls, n) ==
    {[parser |-> parser_cls, stations |-> k, rows |-> rows,
      history |-> IF parser_cls \in ObservationsParsers
                  THEN <<[von_datum |-> MIN_DATE - 1, location |-> "A"]>>
                  ELSE << >>] :
        k \in StationCounts(parser_cls),
        rows \in [1..n -> RawRows(parser_cls)]}

\* The rows Metadaten_Geographie_<id>.txt can hold: the date a location is
\* valid from and the location (lat, lon, height and station name, as one
\* name).
MetadataRows == [von_datum : {MIN_DATE, MIN_DATE + 1}, location : {"A", "B"}]

\* The product rows of the observations files that differ in their location
\* metadata: the timestamp varies, the values are fixed.
DatedRows ==
    [timestamp : {MIN_DATE - 1, MIN_DATE, MIN_DATE + 1},
     wind_direction : {"10"}, precipitation : {"5"}]

\* The wind observations files with k metadata rows and n product rows.
DatedFiles(k, n) ==
    {[parser |-> "WindObservationsParser", stations |-> 1, rows |-> rows,
      history |-> history] :
        history \in [1..k -> MetadataRows], rows \in [1..n -> DatedRows]}

\* float() on the number texts of the files.
float(text) ==
    CASE text = "10" -> 10
      [] text = "360" -> 360
      [] text = "370" -> 370
      [] text = "730" -> 730
      [] text = "-10" -> -10
      [] text = "5" -> 5
      [] text = "-1" -> -1
      [] text = "-999" -> -999

\* Python's truth value of a float or None.
Truthy(v) == v # Null /\ v[1] # 0

\* MOSMIXParser.parse_station: one timestamp's record of a station.
parse_station(station_id, row) ==
    [observation_type |-> "forecast",
     station_id |-> station_id,
     timestamp |-> row.timestamp,
     wind_direction |->
        IF row.wind_direction = "-" THEN Null
        ELSE Some(float(row.wind_direction)),
     precipitation |->
        IF row.precipitation = "-" THEN Null
        ELSE Some(float(row.precipitation))]

\* MOSMIXParser.sanitize_records, on one record.
sanitize_records(r) ==
    LET r1 == IF Truthy(r.precipitation) /\ r.precipitation[1] < 0
              THEN [r EXCEPT !.precipitation = Null]
              ELSE r
    IN  IF Truthy(r1.wind_direction) /\ r1.wind_direction[1] > 360
        THEN [r1 EXCEPT !.wind_direction = Some(r1.wind_direction[1] - 360)]
        ELSE r1

\* CurrentObservationsParser.parse_row, inside the record parse() yields.
parse_row(row) ==
    [observation_type |-> "current",
     timestamp |-> row.timestamp,
     wind_direction |->
        IF row.wind_direction = "---" THEN Null
        ELSE Some(float(row.wind_direction)),
     precipitation |->
        IF row.precipitation = "---" THEN Null
        ELSE Some(float(row.precipitation))]

\* The elements attribute of the observations parser classes.
elements(parser_cls) ==
    CASE parser_cls = "WindObservationsParser" -> {"wind_direction"}
      [] parser_cls = "PrecipitationObservationsParser" -> {"precipitation"}
      [] OTHER -> {}

\* ObservationsParser.parse_elements: the class's elements of one row.
parse_elements(parser_cls, row) ==
    [element \in elements(parser_cls) |->
        IF row[element] # "-999" THEN Some(float(row[element])) ELSE Null]

\* ObservationsParser.parse_lat_lon_history: the dict history, as the
\* sequence of its (date_from, location) items in insertion order.  A date
\* that is already a key keeps its place and takes the later row's location.
RECURSIVE parse_lat_lon_history(_)
parse_lat_lon_history(meta_rows) ==
    IF meta_rows = << >> THEN << >>
    ELSE LET n == Len(meta_rows)
             history == parse_lat_lon_history(SubSeq(meta_rows, 1, n - 1))
             date_from == meta_rows[n].von_datum
             item == <<date_from, meta_rows[n].location>>
         IN  IF \E i \in 1..Len(history) : history[i][1] = date_from
             THEN [i \in 1..Len(history) |->
                      IF history[i][1] = date_from THEN item ELSE history[i]]
             ELSE Append(history, item)

\* The local variables lat, lon, height, station_name of parse_records
\* before their first assignment.
Unbound == "unbound"

\* ObservationsParser.parse_records, lines 321-324: the loop over
\* lat_lon_history.items() from item i on.  It stops at the first date after
\* the timestamp and assigns the location of every item before that; bound
\* is what the variables held when the loop began.
RECURSIVE LocationLoop(_, _, _, _)
LocationLoop(history, i, timestamp, bound) ==
    IF i > Len(history) THEN bound
    ELSE IF history[i][1] > timestamp THEN bound
    ELSE LocationLoop(history, i + 1, timestamp, history[i][2])

\* ObservationsParser.parse_records on one row that passed the date filter,
\* with the observation type parse() adds.
parse_records(parser_cls, row, location) ==
    [k \in {"observation_type", "timestamp", "location"}
              \cup elements(parser_cls) |->
        CASE k = "observation_type" -> "recent"
          [] k = "timestamp" -> row.timestamp
          [] k = "location" -> location
          [] OTHER -> parse_elements(parser_cls, row)[k]]

\* The attributes an ObservationsParser instance has: those of Parser and of
\* ObservationsParser.
ObservationsParserAttributes ==
    {"DEFAULT_URL", "logger", "url", "path", "downloaded_files", "download",
     "should_skip", "parse", "cleanup", "elements", "converters",
     "_ignored_values", "parse_station_id", "parse_observation_type",
     "parse_lat_lon_history", "parse_records", "parse_elements",
     "sanitize_record"}

\* The ignored-values file (settings.IGNORED_VALUES_PATH), for the url of a
\* file of the parser class: per timestamp, the bad value of an element.
IgnoredValues(parser_cls) ==
    IF parser_cls = "WindObservationsParser"
    THEN (MIN_DATE :> ("wind_direction" :> 10))
    ELSE << >>

\* ObservationsParser.sanitize_record: it reads self.ignored_values, which
\* raises AttributeError when the instance has no such attribute; else it
\* nulls the elements that hold the bad value listed for the record's
\* timestamp.  ignored_values is the map of the parser's url.
sanitize_record(record, ignored_values) ==
    IF "ignored_values" \notin ObservationsParserAttributes
    THEN [status |-> "AttributeError"]
    ELSE LET ignores == IF record.timestamp \in DOMAIN ignored_values
                        THEN ignored_values[record.timestamp]
                        ELSE << >>
         IN  [status |-> "ok",
              record |-> [k \in DOMAIN record |->
                            IF k \in DOMAIN ignores /\ record[k] = Some(ignores[k])
                            THEN Null ELSE record[k]]]

VARIABLES
    file,           \* the file being parsed: parser class and rows
    pos,            \* the row parse() reads next
    emitted,        \* the records parse() has yielded
    parse_status,   \* "running", "done", or the exception raised
    location,       \* parse_records' variables lat, lon, height, station_name
    records         \* the records parse_records has yielded

parseVars == <<file, pos, emitted, parse_status, location, records>>

\* No file is being parsed.
ParseIdle ==
    /\ file = [parser |-> NoParser, stations |-> 1, rows |-> << >>,
               history |-> << >>]
    /\ pos = 1
    /\ emitted = << >>
    /\ parse_status = "done"
    /\ location = Unbound
    /\ records = << >>

\* parse() has been called on some file.
ParseInit ==
    /\ \E parser_cls \in ParserClasses, n \in 1..MaxRows :
          file \in Files(parser_cls, n)
    /\ pos = 1
    /\ emitted = << >>
    /\ parse_status = "running"
    /\ location = Unbound
    /\ records = << >>

\* parse_records has been called on some observations file, by a caller that
\* takes its records one by one.
RecordsInit ==
    /\ \E k \in 1..MaxEntries, n \in 1..MaxRows : file \in DatedFiles(k, n)
    /\ pos = 1
    /\ emitted = << >>
    /\ parse_status = "running"
    /\ location = Unbound
    /\ records = << >>

\* parse() goes through the stations of the file and, within a station,
\* through the rows: the station and the row at position i.
StationAt(i) == ((i - 1) \div Len(file.rows)) + 1

RowAt(i) == file.rows[((i - 1) % Len(file.rows)) + 1]

\* The position after pos, and whether the generator is exhausted.
Advance ==
    /\ pos' = pos + 1
    /\ parse_status' = IF pos + 1 > file.stations * Len(file.rows)
                       THEN "done" ELSE "running"
    /\ UNCHANGED file

\* MOSMIXParser.parse yields its next record.
ParseMOSMIX ==
    /\ parse_status = "running"
    /\ file.parser = "MOSMIXParser"
    /\ emitted' = Append(emitted, sanitize_records(
                                      parse_station(StationAt(pos), RowAt(pos))))
    /\ Advance
    /\ UNCHANGED <<location, records>>

\* CurrentObservationsParser.parse yields its next record.
ParseCurrentObservations ==
    /\ parse_status = "running"
    /\ file.parser = "CurrentObservationsParser"
    /\ emitted' = Append(emitted, parse_row(file.rows[pos]))
    /\ Advance
    /\ UNCHANGED <<location, records>>

\* What the variables lat, lon, height, station_name hold when parse_records
\* reaches the yield for the row at pos.
LocationAtYield ==
    LocationLoop(parse_lat_lon_history(file.history), 1,
                 file.rows[pos].timestamp, location)

\* ObservationsParser.parse_records reads its next row, for a caller that
\* takes the records as they are: it drops the row when it is older than
\* MIN_DATE (MAX_DATE is not set), else it runs the loop over the location
\* history and yields the record; reading a variable the loop never bound
\* raises UnboundLocalError.
ParseRecords ==
    /\ parse_status = "running"
    /\ file.parser \in ObservationsParsers
    /\ IF file.rows[pos].timestamp < MIN_DATE
       THEN /\ Advance
            /\ UNCHANGED <<location, records>>
       ELSE IF LocationAtYield = Unbound
       THEN /\ parse_status' = "UnboundLocalError"
            /\ UNCHANGED <<file, pos, location, records>>
       ELSE /\ location' = LocationAtYield
            /\ records' = Append(records, parse_records(file.parser,
                                              file.rows[pos], LocationAtYield))
            /\ Advance
    /\ UNCHANGED emitted

\* ObservationsParser.parse reads its next row: it takes the next record of
\* parse_records and runs sanitize_record on it before it yields it.
ParseObservations ==
    /\ parse_status = "running"
    /\ file.parser \in ObservationsParsers
    /\ IF file.rows[pos].timestamp < MIN_DATE
       THEN /\ Advance
            /\ UNCHANGED <<emitted, location, records>>
       ELSE IF LocationAtYield = Unbound
       THEN /\ parse_status' = "UnboundLocalError"
            /\ UNCHANGED <<file, pos, emitted, location, records>>
       ELSE LET record == parse_records(file.parser, file.rows[pos],
                                        LocationAtYield)
                out == sanitize_record(record, IgnoredValues(file.parser))
            IN  /\ location' = LocationAtYield
                /\ records' = Append(records, record)
                /\ IF out.status = "ok"
                   THEN /\ emitted' = Append(emitted, out.record)
                        /\ Advance
                   ELSE /\ parse_status' = out.status
                        /\ UNCHANGED <<file, pos, emitted>>

vars == <<pollVars, jobVars, dbVars, upsertVars, parseVars>>

\* The state every specification but the parsers' starts in.
Init == PollInit /\ JobInit /\ DbInit /\ UpsertInit /\ ParseIdle

\* The state a parse() call starts in.
InitParse == PollInit /\ JobInit /\ DbInit /\ UpsertInit /\ ParseInit

\* The poller alone, with the ledger rows persistence writes.
NextPoll ==
    \/ Poll /\ UNCHANGED <<jobVars, dbVars, upsertVars, parseVars>>
    \/ PollRecord /\ UNCHANGED <<jobVars, dbVars, upsertVars, parseVars>>
    \/ PollRepublish /\ UNCHANGED <<jobVars, dbVars, upsertVars, parseVars>>
    \/ PollUnlist /\ UNCHANGED <<jobVars, dbVars, upsertVars, parseVars>>

SpecPoll == Init /\ [][NextPoll]_vars

\* The poller enqueuing jobs and the workers running them.
NextJobs ==
    \/ PollEnqueue /\ UNCHANGED <<dbVars, upsertVars, parseVars>>
    \/ JobStart /\ UNCHANGED <<dbVars, upsertVars, parseVars>>
    \/ JobPersist /\ UNCHANGED <<dbVars, upsertVars, parseVars>>
    \/ JobCommit /\ UNCHANGED <<dbVars, upsertVars, parseVars>>
    \/ JobCancel /\ UNCHANGED <<dbVars, upsertVars, parseVars>>
    \/ JobRepublish /\ UNCHANGED <<dbVars, upsertVars, parseVars>>
    \/ JobUnlist /\ UNCHANGED <<dbVars, upsertVars, parseVars>>

SpecJobs == Init /\ [][NextJobs]_vars

\* The caller takes the response.
Deliver ==
    /\ request # NoRequest
    /\ request' = NoRequest
    /\ response' = [status |-> "none"]
    /\ source_ids' = Null
    /\ UNCHANGED <<sources_table, weather_table, ingests>>

\* The database under ingestion and queries.  A query is one step: it sees
\* one state of the tables.
NextQuery ==
    \/ Deliver /\ UNCHANGED <<pollVars, jobVars, upsertVars, parseVars>>
    \/ Ingest /\ UNCHANGED <<pollVars, jobVars, upsertVars, parseVars>>
    \/ QueryWeather /\ UNCHANGED <<pollVars, jobVars, upsertVars, parseVars>>
    \/ QuerySources /\ UNCHANGED <<pollVars, jobVars, upsertVars, parseVars>>

SpecQuery == Init /\ [][NextQuery]_vars

\* Upserts into an empty table.
NextUpsert == Upsert /\ UNCHANGED <<pollVars, jobVars, dbVars, parseVars>>

SpecUpsert == Init /\ [][NextUpsert]_vars

\* One parse() call on one file.
NextParse ==
    \/ ParseMOSMIX /\ UNCHANGED <<pollVars, jobVars, dbVars, upsertVars>>
    \/ ParseCurrentObservations
          /\ UNCHANGED <<pollVars, jobVars, dbVars, upsertVars>>
    \/ ParseObservations /\ UNCHANGED <<pollVars, jobVars, dbVars, upsertVars>>

SpecParse == InitParse /\ [][NextParse]_vars

\* The state a parse_records call starts in.
InitRecords == PollInit /\ JobInit /\ DbInit /\ UpsertInit /\ RecordsInit

\* One parse_records call on one file.
NextRecords == ParseRecords /\ UNCHANGED <<pollVars, jobVars, dbVars, upsertVars>>

SpecRecords == InitRecords /\ [][NextRecords]_vars


(***************************************************************************)
(* Claims about the poller.                                                *)
(***************************************************************************)

\* A step that is a poll() call.
PollStep == pollSeq' # pollSeq

LinkOf(u) == CHOOSE link \in DynLinks : UrlOf(link) = u

FingerprintOf(file_info) == <<file_info.last_modified, file_info.file_size>>

\* The file entries the walk finds: the anchors of every walked page that
\* neither start with '.' nor end with '/'.
FileEntries ==
    UNION {{[dir |-> d, href |-> Page(d)[i].href,
             fingerprint |-> Page(d)[i].fingerprint] :
                i \in {k \in 1..Len(Page(d)) :
                          ~Page(d)[k].dot /\ ~Page(d)[k].slash}} :
           d \in WalkedDirs}

\* Those that resolve to a parser and are not skipped.
ParsableEntries ==
    {e \in FileEntries :
        /\ get_parser(e.href) # NoParser
        /\ ~should_skip(get_parser(e.href), e.href)}

JobOf(e) ==
    [url |-> e.dir \o e.href, parser |-> get_parser(e.href),
     last_modified |-> e.fingerprint[1], file_size |-> e.fingerprint[2]]

Occurrences(seq, x) == Cardinality({i \in 1..Len(seq) : seq[i] = x})

\* C1: a poll() yields the job {url, parser, last_modified, file_size} of a
\* parsable, unskipped file entry exactly when the ledger has no row for its
\* url or the row's (last_modified, file_size) is not the file's fingerprint,
\* once and with these four fields; a file whose fingerprint is the ledger's
\* is not yielded, and nothing else is.
C1_PollYieldsChangedFiles ==
    [][PollStep =>
        /\ \A e \in ParsableEntries :
              /\ (LedgerGet(JobOf(e).url) = Null
                    \/ LedgerGet(JobOf(e).url) # e.fingerprint)
                 => Occurrences(lastOut', JobOf(e)) = 1
              /\ LedgerGet(JobOf(e).url) = e.fingerprint
                 => \A i \in 1..Len(lastOut') : lastOut'[i].url # JobOf(e).url
        /\ \A i \in 1..Len(lastOut') :
              \E e \in ParsableEntries : lastOut'[i] = JobOf(e)]_vars

\* C1's case: a poll that yielded one changed file, whose ledger row holds an
\* older fingerprint, and held back another whose fingerprint is the ledger's.
C1_Witness ==
    /\ polled /\ ~dirty /\ ~wrote
    /\ Len(lastOut) = 1
    /\ LedgerGet(lastOut[1].url) # Null
    /\ \E link \in DynLinks :
          /\ index[link] # Null
          /\ LedgerGet(UrlOf(link)) = index[link]
          /\ lastOut[1].url # UrlOf(link)

\* C2 as stated: the second of two poll() calls against an unchanged index
\* yields no job.
C2_SecondPollEmpty ==
    [][(PollStep /\ polled /\ ~dirty) => lastOut' = << >>]_vars

\* C2 amended: poll() writes no ledger row; against an unchanged index the
\* second call yields the first call's jobs again when no ledger row was
\* written in between, and yields none once the ledger holds the fingerprint
\* of every job the first call yielded.
C2_SecondPollFollowsLedger ==
    [][(PollStep /\ polled /\ ~dirty) =>
        /\ parsed_files' = parsed_files
        /\ ~wrote => lastOut' = lastOut
        /\ (\A i \in 1..Len(lastOut) :
                LedgerGet(lastOut[i].url) = FingerprintOf(lastOut[i]))
           => lastOut' = << >>]_vars

\* C2's case: a first poll yielded both files, both were recorded, and the
\* second poll of the same index yielded nothing.
C2_Witness ==
    /\ polled /\ ~dirty /\ ~wrote
    /\ lastOut = << >>
    /\ \A link \in DynLinks :
          index[link] # Null /\ LedgerGet(UrlOf(link)) = index[link]

HasRow(id, t) ==
    \E row \in weather_table : row.source_id = id /\ row.timestamp = t

TableRow(id, t) ==
    CHOOSE row \in weather_table : row.source_id = id /\ row.timestamp = t

\* The interval of the weather request.
RequestDate == request.date

RequestLastDate ==
    IF request.last_date = Null THEN request.date + HoursPerDay
    ELSE request.last_date[1]

\* A weather call that resolved a candidate list and returned.
ListMode ==
    /\ request.op = "weather"
    /\ request.source_id = Null
    /\ response.status = "ok"

\* A weather call for one source id, last_date left out, that returned.
SourceIdDayMode ==
    /\ request.op = "weather"
    /\ request.source_id # Null
    /\ request.last_date = Null
    /\ response.status = "ok"

PlaceIn(list, x) == CHOOSE k \in 1..Len(list) : list[k] = x

\* The columns that are null in the primary record of some returned row.
MissingOfPrimaries ==
    UNION {{f \in Fields :
              TableRow(response.weather[i].source_id,
                       response.weather[i].timestamp)[f] = Null} :
           i \in 1..Len(response.weather)}

\* C3 as stated: with fallback, a returned row whose primary record lacks
\* field f gets a non-null f, and fallback_source_ids[f] names the source it
\* came from, whenever any candidate source has a row with non-null f at that
\* timestamp.
C3_FallbackFromAnyCandidate ==
    (ListMode /\ request.fallback) =>
        \A i \in 1..Len(response.weather), f \in Fields :
            LET row == response.weather[i]
                t == row.timestamp
            IN  (/\ TableRow(row.source_id, t)[f] = Null
                 /\ \E k \in 1..Len(source_ids) :
                       /\ HasRow(source_ids[k], t)
                       /\ TableRow(source_ids[k], t)[f] # Null)
                => /\ row[f] # Null
                   /\ "fallback_source_ids" \in DOMAIN row
                   /\ f \in DOMAIN row.fallback_source_ids
                   /\ HasRow(row.fallback_source_ids[f], t)
                   /\ TableRow(row.fallback_source_ids[f], t)[f] = row[f]

\* C3 amended: with fallback, a returned row whose primary record lacks field
\* f gets a non-null f whenever some candidate source has a row at that
\* timestamp in which every field that is null in the primary record of any
\* returned row is non-null; fallback_source_ids[f] is then the id of the
\* first such source in the candidate list, and the value is that source's.
C3_FallbackFromCompleteCandidate ==
    (ListMode /\ request.fallback) =>
        LET missing == MissingOfPrimaries
            Complete(k, t) ==
                /\ HasRow(source_ids[k], t)
                /\ \A g \in missing : TableRow(source_ids[k], t)[g] # Null
        IN  \A i \in 1..Len(response.weather) :
                LET row == response.weather[i]
                    t == row.timestamp
                    lacking == MissingRowFields(TableRow(row.source_id, t))
                IN  (/\ lacking # {}
                     /\ \E k \in 1..Len(source_ids) : Complete(k, t))
                    => LET best == CHOOSE k \in 1..Len(source_ids) :
                                      /\ Complete(k, t)
                                      /\ \A j \in 1..(k - 1) : ~Complete(j, t)
                       IN  \A f \in lacking :
                               /\ row[f] # Null
                               /\ "fallback_source_ids" \in DOMAIN row
                               /\ f \in DOMAIN row.fallback_source_ids
                               /\ row.fallback_source_ids[f] = source_ids[best]
                               /\ row[f] = TableRow(source_ids[best], t)[f]

\* C3's case: a returned row that lacked two fields and got both from another
\* source.
C3_Witness ==
    /\ ListMode /\ request.fallback
    /\ \E i \in 1..Len(response.weather) :
          /\ "fallback_source_ids" \in DOMAIN response.weather[i]
          /\ Cardinality(DOMAIN response.weather[i].fallback_source_ids) = 2
          /\ \A f \in Fields : response.weather[i][f] # Null

\* C4 as stated: a day's query for one source returns at most 24 rows, one
\* per timestamp, each with d <= timestamp < d + 1 day.
C4_DayIsHalfOpen ==
    SourceIdDayMode =>
        /\ Len(response.weather) <= HoursPerDay
        /\ \A i, j \in 1..Len(response.weather) :
              i # j => response.weather[i].timestamp # response.weather[j].timestamp
        /\ \A i \in 1..Len(response.weather) :
              /\ RequestDate <= response.weather[i].timestamp
              /\ response.weather[i].timestamp < RequestDate + HoursPerDay

\* C4 amended: a day's query for one source returns at most 25 rows, at most
\* one per timestamp, each of that source and with d <= timestamp <= d + 1
\* day; the source's row stamped exactly d + 1 day is returned.
C4_DayIsClosed ==
    SourceIdDayMode =>
        /\ Len(response.weather) <= HoursPerDay + 1
        /\ \A i, j \in 1..Len(response.weather) :
              i # j => response.weather[i].timestamp # response.weather[j].timestamp
        /\ \A i \in 1..Len(response.weather) :
              /\ response.weather[i].source_id = request.source_id[1]
              /\ RequestDate <= response.weather[i].timestamp
              /\ response.weather[i].timestamp <= RequestDate + HoursPerDay
        /\ HasRow(request.source_id[1], RequestDate + HoursPerDay)
           => \E i \in 1..Len(response.weather) :
                 response.weather[i] =
                     TableRow(request.source_id[1], RequestDate + HoursPerDay)

\* C4's case: a source with a row for every hour, queried for one day: 25
\* rows come back, the last stamped d + 1 day, and a later row is left out.
C4_Witness ==
    /\ SourceIdDayMode
    /\ Len(response.weather) = HoursPerDay + 1
    /\ response.weather[HoursPerDay + 1].timestamp = RequestDate + HoursPerDay
    /\ HasRow(request.source_id[1], RequestDate + HoursPerDay + 1)

\* C7: a weather call over a candidate list returns at most one row per
\* timestamp, for exactly the timestamps of the interval at which some
\* candidate has a row, and the row at t is the record of the first source of
\* the list that has a row at t (its non-null columns unchanged).
C7_FirstCandidateWithRow ==
    ListMode =>
        /\ \A i, j \in 1..Len(response.weather) :
              i # j => response.weather[i].timestamp # response.weather[j].timestamp
        /\ \A i \in 1..Len(response.weather) :
              LET row == response.weather[i]
                  t == row.timestamp
              IN  /\ RequestDate <= t /\ t <= RequestLastDate
                  /\ row.source_id \in Range(source_ids)
                  /\ HasRow(row.source_id, t)
                  /\ \A k \in 1..Len(source_ids) :
                        HasRow(source_ids[k], t)
                            => PlaceIn(source_ids, row.source_id) <= k
                  /\ \A f \in Fields :
                        \/ row[f] = TableRow(row.source_id, t)[f]
                        \/ /\ TableRow(row.source_id, t)[f] = Null
                           /\ request.fallback
        /\ \A t \in RequestDate..RequestLastDate, k \in 1..Len(source_ids) :
              HasRow(source_ids[k], t)
                  => \E i \in 1..Len(response.weather) :
                        response.weather[i].timestamp = t

\* C7's case: two candidates have a row at one timestamp and the first one's
\* is returned, and at another timestamp only the second has one and its row
\* is returned.
C7_Witness ==
    /\ ListMode
    /\ Len(source_ids) >= 2
    /\ \E i, j \in 1..Len(response.weather) :
          /\ response.weather[i].source_id = source_ids[1]
          /\ HasRow(source_ids[2], response.weather[i].timestamp)
          /\ response.weather[j].source_id = source_ids[2]
          /\ source_ids[2] < source_ids[1]

\* C10: sources() raises LookupError in every criteria mode when no source
\* row matches, and never returns an empty list; weather() with a source id
\* that no source row has raises LookupError.
C10_NoMatchRaisesLookupError ==
    /\ (request.op = "sources" /\ SourcesMode(request) # "none") =>
          /\ (~\E row \in sources_table : SourcesWhere(request, row))
                => response.status = "LookupError"
          /\ response.status = "ok" => response.sources # << >>
    /\ (/\ request.op = "weather"
        /\ request.source_id # Null
        /\ ~\E row \in sources_table : row.id = request.source_id[1])
          => response.status = "LookupError"

\* C10's case: sources exist, and a weather call names an id none of them
\* has.
C10_Witness ==
    /\ request.op = "weather"
    /\ request.source_id = Some(4)
    /\ sources_table # {}
    /\ response.status = "LookupError"


\* C15: with fallback, every returned row keeps the source_id, the
\* timestamp and every non-null column of its primary record; a row that is
\* complete, or has no fallback row at its timestamp, is the primary record
\* itself, without a fallback_source_ids key; a row that is filled has
\* exactly its missing columns in fallback_source_ids, all naming one
\* candidate source, whose row at the same timestamp supplied them all.
C15_FillTouchesOnlyMissingFields ==
    (ListMode /\ request.fallback) =>
        LET missing == MissingOfPrimaries
            Complete(k, t) ==
                /\ HasRow(source_ids[k], t)
                /\ \A g \in missing : TableRow(source_ids[k], t)[g] # Null
        IN  \A i \in 1..Len(response.weather) :
                LET row == response.weather[i]
                    t == row.timestamp
                IN  /\ HasRow(row.source_id, t)
                    /\ \A f \in Fields :
                          TableRow(row.source_id, t)[f] # Null
                              => row[f] = TableRow(row.source_id, t)[f]
                    /\ IF /\ MissingRowFields(TableRow(row.source_id, t)) # {}
                          /\ \E k \in 1..Len(source_ids) : Complete(k, t)
                       THEN /\ "fallback_source_ids" \in DOMAIN row
                            /\ DOMAIN row.fallback_source_ids =
                                  MissingRowFields(TableRow(row.source_id, t))
                            /\ \E s \in Range(source_ids) :
                                  /\ HasRow(s, t)
                                  /\ \A f \in DOMAIN row.fallback_source_ids :
                                        /\ row.fallback_source_ids[f] = s
                                        /\ row[f] = TableRow(s, t)[f]
                                        /\ row[f] # Null
                       ELSE row = TableRow(row.source_id, t)

\* C15's case: one returned row was filled and kept a non-null column of its
\* own, another lacks a column and came back as it was.
C15_Witness ==
    /\ ListMode /\ request.fallback
    /\ \E i, j \in 1..Len(response.weather) :
          /\ "fallback_source_ids" \in DOMAIN response.weather[i]
          /\ \E f \in Fields \ DOMAIN response.weather[i].fallback_source_ids :
                response.weather[i][f] = Some(response.weather[i].source_id)
          /\ "fallback_source_ids" \notin DOMAIN response.weather[j]
          /\ MissingRowFields(response.weather[j]) # {}

\* The ids of the sources that contributed to the rows of the response.
ContributingIds ==
    {response.weather[i].source_id : i \in 1..Len(response.weather)}
    \cup UNION {IF "fallback_source_ids" \in DOMAIN response.weather[i]
                THEN {response.weather[i].fallback_source_ids[f] :
                         f \in DOMAIN response.weather[i].fallback_source_ids}
                ELSE {} :
                i \in 1..Len(response.weather)}

\* C11 as stated: every weather call that returns, in list mode and in
\* source_id mode, returns a weather list and a sources list, and the sources
\* list holds exactly the source rows whose id is the source_id of a returned
\* row or a value of some row's fallback_source_ids.
C11_SourcesAreContributors ==
    (request.op = "weather" /\ response.status = "ok") =>
        /\ "weather" \in DOMAIN response
        /\ "sources" \in DOMAIN response
        /\ {response.sources[i].id : i \in 1..Len(response.sources)}
              = ContributingIds
        /\ \A i \in 1..Len(response.sources) :
              \E row \in sources_table : row.id = response.sources[i].id

(***************************************************************************)
(* Claims about the upsert.                                                *)
(***************************************************************************)

NonNullFields(record) == {f \in Fields : record[f] # Null}

SameKey(a, b) == a.source_id = b.source_id /\ a.timestamp = b.timestamp

PersistedRow(record) == CHOOSE row \in persisted : SameKey(row, record)

\* C8: when the last two upserts of a key, in whichever order they came,
\* have disjoint sets of non-null fields, the persisted row of the key holds
\* every non-null field of both; and a field some upsert of the key carried
\* non-null is never null in the persisted row, whatever nulls came after.
C8_UpsertKeepsUnion ==
    /\ \A i, j \in 1..Len(upserts) :
          (/\ i < j
           /\ SameKey(upserts[i], upserts[j])
           /\ NonNullFields(upserts[i]) \cap NonNullFields(upserts[j]) = {}
           /\ \A k \in 1..Len(upserts) :
                 (k > i /\ k # j) => ~SameKey(upserts[k], upserts[i]))
          => /\ \A f \in NonNullFields(upserts[i]) :
                   PersistedRow(upserts[i])[f] = upserts[i][f]
             /\ \A f \in NonNullFields(upserts[j]) :
                   PersistedRow(upserts[i])[f] = upserts[j][f]
    /\ \A i \in 1..Len(upserts) :
          /\ \E row \in persisted : SameKey(row, upserts[i])
          /\ \A f \in NonNullFields(upserts[i]) :
                PersistedRow(upserts[i])[f] # Null

\* C8's case: two upserts of one key, each with a non-null field the other
\* has null, and the row holds both.
C8_Witness ==
    /\ Len(upserts) = 2
    /\ SameKey(upserts[1], upserts[2])
    /\ NonNullFields(upserts[1]) = {"temperature"}
    /\ NonNullFields(upserts[2]) = {"pressure_msl", "wind_speed"}
    /\ NonNullFields(PersistedRow(upserts[1])) = Fields

(***************************************************************************)
(* Claims about the parsers.  MOSMIXParser and CurrentObservationsParser   *)
(* yield one record per station and row, so emitted[i] is the record of    *)
(* RowAt(i).                                                               *)
(***************************************************************************)

\* The number a row's text stands for, or Null for the missing-value text.
InputValue(text) ==
    IF text = MissingText(file.parser) THEN Null ELSE Some(float(text))

\* C5 as stated: every emitted record has wind_direction null or in
\* [0, 360); an input in [360, 720) comes out 360 less, and any other input
\* out of range comes out null.
C5_WindDirectionInRange ==
    \A i \in 1..Len(emitted) :
        "wind_direction" \in DOMAIN emitted[i] =>
            LET out == emitted[i].wind_direction
                in == InputValue(RowAt(i).wind_direction)
            IN  /\ out = Null \/ (0 <= out[1] /\ out[1] < 360)
                /\ (in # Null /\ 360 <= in[1] /\ in[1] < 720)
                      => out = Some(in[1] - 360)
                /\ (in # Null /\ (in[1] < 0 \/ in[1] >= 720)) => out = Null

\* C6 as stated: an emitted record whose input precipitation is negative has
\* precipitation null, and no emitted record has a negative precipitation.
C6_NoNegativePrecipitation ==
    \A i \in 1..Len(emitted) :
        "precipitation" \in DOMAIN emitted[i] =>
            LET out == emitted[i].precipitation
                in == InputValue(RowAt(i).precipitation)
            IN  /\ (in # Null /\ in[1] < 0) => out = Null
                /\ out = Null \/ out[1] >= 0

\* C12 as stated: in every parser the records parse() yields for one file
\* come in non-decreasing timestamp order over the whole file.
C12_EmittedInTimestampOrder ==
    \A i, j \in 1..Len(emitted) :
        i < j => emitted[i].timestamp <= emitted[j].timestamp

\* The items of the location history that are valid at a timestamp.
ValidItems(timestamp) ==
    LET history == parse_lat_lon_history(file.history)
    IN  {history[i] : i \in {j \in 1..Len(history) : history[j][1] <= timestamp}}

\* C13 as stated: every record parse_records yields carries the location of
\* the history entry with the greatest valid-from date that is not after the
\* record's timestamp, whatever the order of the entries and whatever the
\* preceding row got; no record is yielded with a location when no entry is
\* valid at its timestamp.
C13_LatestValidLocation ==
    file.parser \in ObservationsParsers =>
        \A i \in 1..Len(records) :
            LET valid == ValidItems(records[i].timestamp)
            IN  /\ valid # {}
                /\ \E item \in valid :
                      /\ \A other \in valid : other[1] <= item[1]
                      /\ records[i].location = item[2]

\* parse_records' date filter.
NotTooOld(row) == row.timestamp >= MIN_DATE

\* The rows before pos that parse_records turned into a record.
RowsYielded == SelectSeq(SubSeq(file.rows, 1, pos - 1), NotTooOld)

\* C14 as stated: in an observations parser the parse does not fail, and
\* every row that passes the date filter is yielded with each element nulled
\* when the ignored-values map lists the element's value for the record's
\* timestamp, and as parsed when the map lists another value or nothing.
C14_IgnoredValuesNulled ==
    file.parser \in ObservationsParsers =>
        /\ parse_status \in {"running", "done"}
        /\ Len(emitted) = Len(RowsYielded)
        /\ \A i \in 1..Len(emitted), k \in elements(file.parser) :
              LET row == RowsYielded[i]
                  parsed == parse_elements(file.parser, row)[k]
                  ignored_values == IgnoredValues(file.parser)
                  listed == /\ row.timestamp \in DOMAIN ignored_values
                            /\ k \in DOMAIN ignored_values[row.timestamp]
              IN  emitted[i][k] =
                      IF listed /\ parsed = Some(ignored_values[row.timestamp][k])
                      THEN Null
                      ELSE parsed

====
